---- MODULE Spec2Model ----
(***************************************************************************)
(* Function-call evaluation (rust/src/eval/function/mod.rs) and scalar     *)
(* display (rust/src/eval/value/display.rs) of the MistQL Rust evaluator.  *)
(*                                                                         *)
(* Text is modelled as a sequence of one-character strings wherever the   *)
(* program inspects or builds it character by character (Value::String,   *)
(* Display output); identifier text that is only compared as a whole      *)
(* (function names, error messages) is a TLA+ string.                      *)
(***************************************************************************)
EXTENDS Integers, Sequences, FiniteSets, TLC

VARIABLES
    query,    \* the (pair, data, context) function::eval was entered with
    stack,    \* activation records of function::eval, innermost last
    ret,      \* the Result the innermost finished call handed to its caller
    status,   \* "running", "done" (a Result was returned) or "panic"
    trace,    \* history of the observable steps, oldest first
    nfid,     \* number of activations created so far
    shown,    \* the Value handed to Display::fmt
    text      \* what Display::fmt wrote: <<>> before, <<chars>> after

vars == <<query, stack, ret, status, trace, nfid, shown, text>>

evalVars == <<query, stack, ret, status, trace, nfid>>

\* ---------------------------------------------------------------- bounds

\* largest number of argument children of a generated call node
MaxArgs == 2

\* deepest chain of nested log calls among the generated argument children
MaxDepth == 2

\* decimal exponents of the generated floats range over -MaxNegExp..MaxPosExp
MaxNegExp == 8

MaxPosExp == 22

\* ---------------------------------------------------------------- values

\* an f64, held as its shortest round-trip decimal: d1.d2...dn * 10^exp
F64(neg, digits, exp) ==
    [neg |-> neg, digits |-> digits, exp |-> exp]

ZeroF == F64(FALSE, <<0>>, 0)

\* enum Value: one record shape for every variant
Value(t, b, i, f, s, a, k) ==
    [t |-> t, b |-> b, i |-> i, f |-> f, s |-> s, a |-> a, k |-> k]

NullV == Value("Null", FALSE, 0, ZeroF, <<>>, <<>>, <<>>)

BoolV(b) == Value("Boolean", b, 0, ZeroF, <<>>, <<>>, <<>>)

IntV(i) == Value("Int", FALSE, i, ZeroF, <<>>, <<>>, <<>>)

FloatV(f) == Value("Float", FALSE, 0, f, <<>>, <<>>, <<>>)

StringV(s) == Value("String", FALSE, 0, ZeroF, s, <<>>, <<>>)

IdentV(s) == Value("Ident", FALSE, 0, ZeroF, s, <<>>, <<>>)

ArrayV(a) == Value("Array", FALSE, 0, ZeroF, <<>>, a, <<>>)

\* Object: keys k (insertion order) and their values a, position by position
ObjectV(k, a) == Value("Object", FALSE, 0, ZeroF, <<>>, a, k)

\* ------------------------------------------------- display.rs: from_number

positive_exponent_break == 20

negative_exponent_break == -6

DigitChar == <<"0", "1", "2", "3", "4", "5", "6", "7", "8", "9">>

RECURSIVE NatChars(_)
NatChars(n) ==
    IF n < 10 THEN <<DigitChar[n + 1]>>
    ELSE NatChars(n \div 10) \o <<DigitChar[(n % 10) + 1]>>

RECURSIVE DigitChars(_)
DigitChars(ds) ==
    IF ds = <<>> THEN <<>>
    ELSE <<DigitChar[Head(ds) + 1]>> \o DigitChars(Tail(ds))

RECURSIVE Zeros(_)
Zeros(n) ==
    IF n <= 0 THEN <<>> ELSE <<"0">> \o Zeros(n - 1)

\* the mutation of outside_break that closes the window at the positive break
outside_break_excl(sci_exp) ==
    sci_exp < negative_exponent_break \/ sci_exp >= positive_exponent_break

\* lexical's write_float: exponent notation is used outside the two breaks
outside_break(sci_exp) ==
    sci_exp < negative_exponent_break \/ sci_exp > positive_exponent_break

\* d[.ddd]e(+|-)x; trim_floats drops an empty fraction, the exponent sign is required
write_float_scientific(digits, sci_exp) ==
    <<DigitChar[digits[1] + 1]>>
    \o (IF Len(digits) > 1 THEN <<".">> \o DigitChars(Tail(digits)) ELSE <<>>)
    \o <<"e">>
    \o (IF sci_exp < 0 THEN <<"-">> \o NatChars(-sci_exp)
        ELSE <<"+">> \o NatChars(sci_exp))

\* 0.000ddd
write_float_negative_exponent(digits, sci_exp) ==
    <<"0", ".">> \o Zeros(-sci_exp - 1) \o DigitChars(digits)

\* ddd000 or dd.ddd; trim_floats drops a fraction that would be ".0"
write_float_positive_exponent(digits, sci_exp) ==
    IF Len(digits) <= sci_exp + 1
    THEN DigitChars(digits) \o Zeros(sci_exp + 1 - Len(digits))
    ELSE DigitChars(SubSeq(digits, 1, sci_exp + 1)) \o <<".">>
         \o DigitChars(SubSeq(digits, sci_exp + 2, Len(digits)))

from_number(num) ==
    (IF num.neg THEN <<"-">> ELSE <<>>)
    \o (IF outside_break(num.exp)
        THEN write_float_scientific(num.digits, num.exp)
        ELSE IF num.exp < 0
        THEN write_float_negative_exponent(num.digits, num.exp)
        ELSE write_float_positive_exponent(num.digits, num.exp))

RECURSIVE NatDigits(_)
NatDigits(n) ==
    IF n < 10 THEN <<n>> ELSE NatDigits(n \div 10) \o <<n % 10>>

RECURSIVE StripZeros(_)
StripZeros(ds) ==
    IF Len(ds) > 1 /\ ds[Len(ds)] = 0 THEN StripZeros(SubSeq(ds, 1, Len(ds) - 1))
    ELSE ds

Abs(n) == IF n < 0 THEN -n ELSE n

\* `num as f64` for an i64 of magnitude at most 2^53 (exact)
IntAsF64(n) ==
    F64(n < 0, StripZeros(NatDigits(Abs(n))), Len(NatDigits(Abs(n))) - 1)

\* impl fmt::Display for Value
Display(v) ==
    CASE v.t = "Null" -> <<"n", "u", "l", "l">>
      [] v.t = "Boolean" /\ v.b -> <<"t", "r", "u", "e">>
      [] v.t = "Boolean" /\ ~v.b -> <<"f", "a", "l", "s", "e">>
      [] v.t = "Float" -> from_number(v.f)
      [] v.t = "Int" -> from_number(IntAsF64(v.i))
      [] v.t = "String" -> v.s
      [] v.t = "Ident" -> v.s
      [] OTHER -> <<"u", "n", "i", "m", "p", "l", "e", "m", "e", "n", "t", "e", "d">>

\* the (input, output) pairs of the test casts_float_to_string
FloatFixtures ==
    << <<F64(FALSE, <<1, 5>>, 0), <<"1", ".", "5">> >>,
       <<F64(FALSE, <<1>>, 0), <<"1">> >>,
       <<F64(FALSE, <<1>>, 50), <<"1", "e", "+", "5", "0">> >>,
       <<F64(FALSE, <<1>>, -50), <<"1", "e", "-", "5", "0">> >>,
       <<F64(FALSE, <<1>>, -6), <<"0", ".", "0", "0", "0", "0", "0", "1">> >>,
       <<F64(FALSE, <<1>>, -7), <<"1", "e", "-", "7">> >>,
       <<F64(FALSE, <<3>>, 20),
         <<"3", "0", "0", "0", "0", "0", "0", "0", "0", "0", "0",
           "0", "0", "0", "0", "0", "0", "0", "0", "0", "0">> >>,
       <<F64(FALSE, <<3>>, 21), <<"3", "e", "+", "2", "1">> >> >>

\* the f64 inputs Display is exercised on
FloatInputs ==
    {F64(neg, ds, e) :
        neg \in BOOLEAN,
        ds \in {<<1>>, <<3>>, <<1, 5>>, <<1, 2, 5>>},
        e \in (-MaxNegExp)..MaxPosExp}
    \cup {FloatFixtures[j][1] : j \in 1..Len(FloatFixtures)}
    \cup {ZeroF}

IntInputs == {0, 1, -1, 7, 10, -120, 1200, 2147483647}

DisplayInputs ==
    {FloatV(f) : f \in FloatInputs}
    \cup {IntV(i) : i \in IntInputs}
    \cup {NullV, BoolV(TRUE), BoolV(FALSE), StringV(<<"h", "i">>),
          IdentV(<<"k">>), ArrayV(<<IntV(1)>>), ObjectV(<<"k">>, <<IntV(1)>>)}

\* ------------------------------------------------------------ parse nodes

\* pest Pair<Rule>: rule kind, source text, inner pairs in source order
Node(rule, txt, children) ==
    [rule |-> rule, text |-> txt, children |-> children]

NoNode == Node("none", "", <<>>)

\* Option<Value>
None == [some |-> FALSE, val |-> NullV]

Some(v) == [some |-> TRUE, val |-> v]

\* Option<Pair<Rule>>
NoPair == [some |-> FALSE, node |-> NoNode]

SomePair(n) == [some |-> TRUE, node |-> n]

\* Result<Value>
Ok(v) == [ok |-> TRUE, val |-> v, err |-> ""]

Err(e) == [ok |-> FALSE, val |-> NullV, err |-> e]

\* ------------------------------------------------ function/mod.rs: Function

\* the lookup ignores the case of the first letter and accepts a plural
from_str_loose(s) ==
    CASE s \in {"count", "Count", "counts"} -> [ok |-> TRUE, tag |-> "Count", err |-> ""]
      [] s = "float" -> [ok |-> TRUE, tag |-> "Float", err |-> ""]
      [] s = "index" -> [ok |-> TRUE, tag |-> "Index", err |-> ""]
      [] s = "keys" -> [ok |-> TRUE, tag |-> "Keys", err |-> ""]
      [] s = "log" -> [ok |-> TRUE, tag |-> "Log", err |-> ""]
      [] s = "map" -> [ok |-> TRUE, tag |-> "Map", err |-> ""]
      [] s = "string" -> [ok |-> TRUE, tag |-> "String", err |-> ""]
      [] s = "sum" -> [ok |-> TRUE, tag |-> "Sum", err |-> ""]
      [] s = "values" -> [ok |-> TRUE, tag |-> "Values", err |-> ""]
      [] OTHER -> [ok |-> FALSE, tag |-> "", err |-> "unknown function " \o s]

\* impl FromStr for Function: Result<Function>
from_str(s) ==
    CASE s = "count" -> [ok |-> TRUE, tag |-> "Count", err |-> ""]
      [] s = "float" -> [ok |-> TRUE, tag |-> "Float", err |-> ""]
      [] s = "index" -> [ok |-> TRUE, tag |-> "Index", err |-> ""]
      [] s = "keys" -> [ok |-> TRUE, tag |-> "Keys", err |-> ""]
      [] s = "log" -> [ok |-> TRUE, tag |-> "Log", err |-> ""]
      [] s = "map" -> [ok |-> TRUE, tag |-> "Map", err |-> ""]
      [] s = "string" -> [ok |-> TRUE, tag |-> "String", err |-> ""]
      [] s = "sum" -> [ok |-> TRUE, tag |-> "Sum", err |-> ""]
      [] s = "values" -> [ok |-> TRUE, tag |-> "Values", err |-> ""]
      [] OTHER -> [ok |-> FALSE, tag |-> "", err |-> "unknown function " \o s]

\* Function::takes_fn_arg
takes_fn_arg(function) ==
    IF function = "Map" THEN TRUE ELSE FALSE

\* ------------------------------------------- builtins (bodies outside src/)

\* super::index::index, shared with subscript syntax: index i target
index(args) ==
    IF Len(args) = 2 /\ args[1].t = "Int" /\ args[2].t = "Array"
    THEN IF args[1].i >= 0 /\ args[1].i < Len(args[2].a)
         THEN Ok(args[2].a[args[1].i + 1])
         ELSE Ok(NullV)
    ELSE Err("index: expected an index and an array")

count(args) ==
    IF Len(args) = 1 /\ args[1].t \in {"Array", "Object"}
    THEN Ok(IntV(Len(args[1].a)))
    ELSE Err("count: expected 1 argument, an array or object")

RECURSIVE SumInts(_)
SumInts(a) ==
    IF a = <<>> THEN 0 ELSE Head(a).i + SumInts(Tail(a))

\* only Int elements occur in the arrays modelled, so no promotion to Float
sum(args) ==
    IF /\ Len(args) = 1
       /\ args[1].t = "Array"
       /\ \A j \in 1..Len(args[1].a) : args[1].a[j].t = "Int"
    THEN Ok(IntV(SumInts(args[1].a)))
    ELSE Err("sum: expected 1 argument, an array of numbers")

keys(args) ==
    IF Len(args) = 1 /\ args[1].t = "Object"
    THEN Ok(ArrayV([j \in 1..Len(args[1].k) |-> StringV(args[1].k[j])]))
    ELSE Err("keys: expected 1 argument, an object")

values(args) ==
    IF Len(args) = 1 /\ args[1].t = "Object"
    THEN Ok(ArrayV(args[1].a))
    ELSE Err("values: expected 1 argument, an object")

string(args) ==
    IF Len(args) = 1
    THEN Ok(StringV(Display(args[1])))
    ELSE Err("string: expected 1 argument")

IsDigitChar(c) == \E d \in 1..10 : DigitChar[d] = c

DigitOf(c) == (CHOOSE d \in 1..10 : DigitChar[d] = c) - 1

RECURSIVE ParseNat(_)
ParseNat(cs) ==
    IF cs = <<>> THEN 0
    ELSE 10 * ParseNat(SubSeq(cs, 1, Len(cs) - 1)) + DigitOf(cs[Len(cs)])

float(args) ==
    IF Len(args) # 1 THEN Err("float: expected 1 argument")
    ELSE CASE args[1].t = "Float" -> Ok(args[1])
           [] args[1].t = "Int" -> Ok(FloatV(IntAsF64(args[1].i)))
           [] args[1].t = "String" ->
                IF args[1].s # <<>> /\ \A j \in 1..Len(args[1].s) : IsDigitChar(args[1].s[j])
                THEN Ok(FloatV(IntAsF64(ParseNat(args[1].s))))
                ELSE Err("float: not a number")
           [] OTHER -> Err("float: expected a number or a string")

\* log returns its argument unchanged (the emission is recorded by Dispatch)
log(args) ==
    IF Len(args) = 1 THEN Ok(args[1]) ELSE Err("log: expected 1 argument")

\* map's check of its evaluated arguments, before the lambda is applied
map_args_ok(args) ==
    Len(args) = 1 /\ args[1].t = "Array"

\* the ordinary (non-Map) arms of the dispatch match
Builtin(function, args) ==
    CASE function = "Count" -> count(args)
      [] function = "Float" -> float(args)
      [] function = "Index" -> index(args)
      [] function = "Keys" -> keys(args)
      [] function = "Log" -> log(args)
      [] function = "String" -> string(args)
      [] function = "Sum" -> sum(args)
      [] function = "Values" -> values(args)

\* ------------------------------------- expr::eval (body outside src/)

\* nodes expr::eval hands back to function::eval
ExprIsCall(node) == node.rule \in {"ident", "function"}

ParseNumber(txt) ==
    CASE txt = "0" -> 0 [] txt = "1" -> 1 [] txt = "2" -> 2 [] txt = "3" -> 3

\* expr::eval on a node that is not a call: `@` is the context, or the data
\* when no context was supplied; literals build their value
RECURSIVE ExprValue(_, _, _)
ExprValue(node, data, context) ==
    CASE node.rule = "at" -> Ok(IF context.some THEN context.val ELSE data)
      [] node.rule = "number" -> Ok(IntV(ParseNumber(node.text)))
      [] node.rule = "null" -> Ok(NullV)
      [] node.rule = "array" ->
            Ok(ArrayV([j \in 1..Len(node.children) |->
                          ExprValue(node.children[j], data, context).val]))
      [] node.rule = "indexed_value" ->
            LET target == ExprValue(node.children[1], data, context)
                sub == ExprValue(node.children[2], data, context)
            IN  IF target.ok /\ sub.ok THEN index(<<sub.val, target.val>>)
                ELSE IF target.ok THEN sub ELSE target

\* ------------------------------------------------ function/mod.rs: eval

\* one entry of the history
Ev(ev, fid, idx, node, ctx, res, args, tag) ==
    [ev |-> ev, fid |-> fid, idx |-> idx, node |-> node, ctx |-> ctx,
     res |-> res, args |-> args, tag |-> tag]

NoRet == [set |-> FALSE, res |-> Ok(NullV)]

\* the locals of one activation of eval(pair, data, context); iter counts the
\* inner pairs function_iter has yielded, cur is the one being evaluated, and
\* mi, out are map's position in its array and the results so far
Frame(fid, pair, context) ==
    [fid |-> fid, pair |-> pair, context |-> context, pc |-> "resolve",
     function |-> "", iter |-> 0, cur |-> 0, fn_arg |-> NoPair, args |-> <<>>,
     use_implicit_context |-> TRUE, mi |-> 0, out |-> <<>>]

Top == stack[Len(stack)]

SetTop(f) == [stack EXCEPT ![Len(stack)] = f]

\* a flag shared between activations: a nested call starts from its caller's
use_implicit_context_shared ==
    IF Len(stack) > 1 THEN stack[Len(stack) - 1].use_implicit_context ELSE TRUE

\* let mut use_implicit_context = true
use_implicit_context_init == TRUE

\* takes_fn_arg is consulted but nothing is reserved
reserved_none(function, iter, children) == NoPair

\* match function.takes_fn_arg(): the pair reserved as fn_arg, if any
\* (callers check that function_iter has one left)
reserved(function, iter, children) ==
    IF takes_fn_arg(function) THEN SomePair(children[iter + 1]) ELSE NoPair

\* the scan walks the remaining pairs back to front
next_arg_rev(f) ==
    Len(f.pair.children) - f.iter
    + (IF f.pair.rule = "function" THEN 1 ELSE 0) + (IF f.fn_arg.some THEN 1 ELSE 0)

\* for arg in function_iter: the position of the pair the iterator yields
next_arg(f) == f.iter + 1

\* every argument is given the context
arg_context_always(arg, context) == context

\* the context argument of expr::eval in the two arms of match arg.as_rule()
arg_context(arg, context) ==
    IF arg.rule = "at" THEN context ELSE None

\* the Rule::at arm forgets to clear the flag
consumes_context_never(arg) == FALSE

\* the arm that clears use_implicit_context
consumes_context(arg) == arg.rule = "at"

\* the error of a failed argument is dropped and the scan goes on
question_mark_swallow(r) == "continue"

\* the ? operator on a Result
question_mark(r) == IF r.ok THEN "continue" ELSE "return"

\* the context becomes the first argument
implicit_context_first(args, use_implicit_context, context) ==
    IF use_implicit_context /\ context.some THEN <<context.val>> \o args ELSE args

\* if use_implicit_context { if let Some(ctx) = context { args.push(ctx) } }
implicit_context(args, use_implicit_context, context) ==
    IF use_implicit_context /\ context.some THEN Append(args, context.val) ELSE args

\* return r from the innermost activation
Return(r, evs) ==
    /\ stack' = SubSeq(stack, 1, Len(stack) - 1)
    /\ ret' = [set |-> TRUE, res |-> r]
    /\ status' = IF Len(stack) = 1 THEN "done" ELSE "running"
    /\ trace' = trace \o evs \o <<Ev("exit", Top.fid, 0, NoNode, None, r, <<>>, "")>>
    /\ nfid' = nfid

\* unwrap() on None, or unreachable!()
Panic(evs) ==
    /\ status' = "panic"
    /\ trace' = trace \o evs \o <<Ev("panic", Top.fid, 0, NoNode, None, Ok(NullV), <<>>, "")>>
    /\ UNCHANGED <<stack, ret, nfid>>

\* the innermost activation goes on as f
Stay(f, evs) ==
    /\ stack' = SetTop(f)
    /\ trace' = trace \o evs
    /\ ret' = NoRet
    /\ UNCHANGED <<status, nfid>>

\* expr::eval reaches a nested call: function::eval(node, data, context)
Call(f, node, context, evs) ==
    /\ stack' = Append(SetTop(f), Frame(nfid + 1, node, context))
    /\ nfid' = nfid + 1
    /\ trace' = trace \o evs
                \o <<Ev("enter", nfid + 1, f.fid, node, context, Ok(NullV), <<>>, "")>>
    /\ ret' = NoRet
    /\ UNCHANGED status

Running == status = "running" /\ stack # <<>>

\* lines 57-62: the function name is resolved
Resolve ==
    /\ Running /\ Top.pc = "resolve"
    /\ LET f == Top
           children == f.pair.children
       IN  IF f.pair.rule \notin {"ident", "function"}
              \/ (f.pair.rule = "function" /\ children = <<>>)
           THEN Panic(<<>>)
           ELSE LET name == IF f.pair.rule = "ident" THEN f.pair.text
                            ELSE children[1].text
                    r == from_str(name)
                    ev == Ev("resolve", f.fid, 0, Node("ident", name, <<>>), None,
                             IF r.ok THEN Ok(NullV) ELSE Err(r.err), <<>>, r.tag)
                IN  IF r.ok
                    THEN Stay([f EXCEPT !.function = r.tag,
                                        !.iter = IF f.pair.rule = "ident" THEN 0 ELSE 1,
                                        !.pc = "fn_arg"], <<ev>>)
                    ELSE Return(Err(r.err), <<ev>>)
    /\ UNCHANGED <<query, shown, text>>

\* lines 64-69: the flag, the reserved lambda pair, the empty argument list
TakeFnArg ==
    /\ Running /\ Top.pc = "fn_arg"
    /\ LET f == Top
           children == f.pair.children
       IN  IF takes_fn_arg(f.function) /\ f.iter >= Len(children)
           THEN Panic(<<>>)
           ELSE LET fa == reserved(f.function, f.iter, children)
                IN  Stay([f EXCEPT !.use_implicit_context = use_implicit_context_init,
                                   !.fn_arg = fa,
                                   !.iter = IF fa.some THEN f.iter + 1 ELSE f.iter,
                                   !.args = <<>>,
                                   !.pc = "scan"],
                         IF fa.some
                         THEN <<Ev("reserve", f.fid, f.iter + 1, fa.node, None,
                                   Ok(NullV), <<>>, f.function)>>
                         ELSE <<>>)
    /\ UNCHANGED <<query, shown, text>>

\* what the scan does with the Result r of argument number f.cur
AfterArg(f, r, evs) ==
    LET got == Ev("value", f.fid, f.cur, NoNode, None, r, <<>>, "")
    IN  IF question_mark(r) = "return"
        THEN Return(r, evs \o <<got>>)
        ELSE Stay([f EXCEPT !.args = Append(f.args, r.val),
                            !.use_implicit_context =
                                IF consumes_context(f.pair.children[f.cur])
                                THEN FALSE ELSE f.use_implicit_context,
                            !.pc = "scan"],
                  evs \o <<got>>)

\* lines 73-81: one iteration of the scan
ScanArg ==
    /\ Running /\ Top.pc = "scan" /\ Top.iter < Len(Top.pair.children)
    /\ LET f == Top
           j == next_arg(f)
           arg == f.pair.children[j]
           ctx == arg_context(arg, f.context)
           g == [f EXCEPT !.iter = f.iter + 1, !.cur = j]
           ev == Ev("eval", f.fid, j, arg, ctx, Ok(NullV), <<>>, "")
       IN  IF ExprIsCall(arg)
           THEN Call([g EXCEPT !.pc = "scan_wait"], arg, ctx, <<ev>>)
           ELSE AfterArg(g, ExprValue(arg, query.data, ctx), <<ev>>)
    /\ UNCHANGED <<query, shown, text>>

\* a nested function::eval has returned to the expr::eval that called it
Resume ==
    /\ Running /\ Top.pc \in {"scan_wait", "map_wait"} /\ ret.set
    /\ LET f == Top
       IN  IF f.pc = "scan_wait"
           THEN AfterArg(f, ret.res, <<>>)
           ELSE IF ret.res.ok
           THEN Stay([f EXCEPT !.out = Append(f.out, ret.res.val), !.pc = "map"], <<>>)
           ELSE Return(ret.res, <<>>)
    /\ UNCHANGED <<query, shown, text>>

\* lines 84-88: after the scan, the context becomes the last argument
ImplicitContext ==
    /\ Running /\ Top.pc = "scan" /\ Top.iter >= Len(Top.pair.children)
    /\ LET f == Top
           a == implicit_context(f.args, f.use_implicit_context, f.context)
       IN  Stay([f EXCEPT !.args = a, !.pc = "dispatch"],
                IF a # f.args
                THEN <<Ev("append", f.fid, 0, NoNode, f.context, Ok(NullV), a, "")>>
                ELSE <<>>)
    /\ UNCHANGED <<query, shown, text>>

\* lines 90-100: the builtin is invoked with args
Dispatch ==
    /\ Running /\ Top.pc = "dispatch"
    /\ LET f == Top
           inv == Ev("invoke", f.fid, 0, f.fn_arg.node, None, Ok(NullV), f.args, f.function)
       IN  IF f.function = "Map"
           THEN IF ~f.fn_arg.some THEN Panic(<<>>)
                ELSE IF map_args_ok(f.args)
                THEN Stay([f EXCEPT !.pc = "map", !.mi = 0, !.out = <<>>], <<inv>>)
                ELSE Return(Err("map: expected a function and an array"), <<inv>>)
           ELSE Return(Builtin(f.function, f.args),
                       IF f.function = "Log" /\ Len(f.args) = 1
                       THEN <<inv, Ev("emit", f.fid, 0, NoNode, None, Ok(NullV), f.args, "Log")>>
                       ELSE <<inv>>)
    /\ UNCHANGED <<query, shown, text>>

\* map::map: the lambda pair is evaluated once per element, the element as context
MapStep ==
    /\ Running /\ Top.pc = "map"
    /\ LET f == Top
           arr == f.args[1].a
       IN  IF f.mi >= Len(arr)
           THEN Return(Ok(ArrayV(f.out)), <<>>)
           ELSE LET elem == Some(arr[f.mi + 1])
                    lambda == f.fn_arg.node
                    g == [f EXCEPT !.mi = f.mi + 1]
                    ev == Ev("lambda", f.fid, f.mi + 1, lambda, elem, Ok(NullV), <<>>, "")
                IN  IF ExprIsCall(lambda)
                    THEN Call([g EXCEPT !.pc = "map_wait"], lambda, elem, <<ev>>)
                    ELSE LET r == ExprValue(lambda, query.data, elem)
                         IN  IF r.ok
                             THEN Stay([g EXCEPT !.out = Append(f.out, r.val)], <<ev>>)
                             ELSE Return(r, <<ev>>)
    /\ UNCHANGED <<query, shown, text>>

\* ----------------------------------------------------------------- inputs

BuiltinNames ==
    {"count", "float", "index", "keys", "log", "map", "string", "sum", "values"}

\* other casing, a prefix, an extension, another language's builtin
OtherNames == {"Count", "coun", "counts", "reduce"}

IdentNode(name) == Node("ident", name, <<>>)

FunctionNode(name, argNodes) ==
    Node("function", name, <<IdentNode(name)>> \o argNodes)

AtNode == Node("at", "@", <<>>)

NumberNode(txt) == Node("number", txt, <<>>)

ArrayNode == Node("array", "[1,2]", <<NumberNode("1"), NumberNode("2")>>)

IndexedNode == Node("indexed_value", "@[0]", <<AtNode, NumberNode("0")>>)

\* log (log (... @)), d calls deep
RECURSIVE LogChain(_)
LogChain(d) ==
    IF d = 0 THEN AtNode ELSE FunctionNode("log", <<LogChain(d - 1)>>)

\* the argument children of the generated calls
ArgNodes ==
    {AtNode, NumberNode("1"), ArrayNode, IndexedNode,
     IdentNode("count"), IdentNode("nope")}
    \cup {LogChain(d) : d \in 1..MaxDepth}

RECURSIVE SeqsUpTo(_, _)
SeqsUpTo(S, n) ==
    IF n = 0 THEN {<<>>}
    ELSE LET shorter == SeqsUpTo(S, n - 1)
         IN  shorter \cup {Append(q, x) : q \in {r \in shorter : Len(r) = n - 1}, x \in S}

\* well-formed nodes: a bare identifier, or a call with 0..MaxArgs arguments
Pairs ==
    {IdentNode(name) : name \in BuiltinNames \cup OtherNames}
    \cup {FunctionNode(name, argNodes) :
            name \in BuiltinNames \cup OtherNames, argNodes \in SeqsUpTo(ArgNodes, MaxArgs)}

DataValue ==
    ObjectV(<< <<"a">>, <<"b">> >>, <<IntV(1), ArrayV(<<IntV(1), IntV(2)>>)>>)

Contexts == {None, Some(IntV(2)), Some(ArrayV(<<IntV(1), IntV(2), IntV(3)>>))}

Init ==
    /\ query \in {[pair |-> p, data |-> DataValue, context |-> c] :
                     p \in Pairs, c \in Contexts}
    /\ stack = <<Frame(1, query.pair, query.context)>>
    /\ ret = NoRet
    /\ status = "running"
    /\ trace = <<Ev("enter", 1, 0, query.pair, query.context, Ok(NullV), <<>>, "")>>
    /\ nfid = 1
    /\ shown = NullV
    /\ text = <<>>

Next ==
    \/ Resolve
    \/ TakeFnArg
    \/ ScanArg
    \/ Resume
    \/ ImplicitContext
    \/ Dispatch
    \/ MapStep

Spec == Init /\ [][Next]_vars

\* ---------------------------------------------------------------- display

Idle ==
    /\ query = [pair |-> NoNode, data |-> NullV, context |-> None]
    /\ stack = <<>>
    /\ ret = NoRet
    /\ status = "done"
    /\ trace = <<>>
    /\ nfid = 0

InitDisplay ==
    /\ Idle
    /\ shown \in DisplayInputs
    /\ text = <<>>

\* Value::to_string(): Display::fmt writes the rendering
Fmt ==
    /\ text = <<>>
    /\ text' = <<Display(shown)>>
    /\ UNCHANGED <<shown, evalVars>>

NextDisplay == Fmt

SpecDisplay == InitDisplay /\ [][NextDisplay]_vars

\* ------------------------------------------------------------- properties

\* reading the history
Positions == 1..Len(trace)

EnterOf(fid) ==
    trace[CHOOSE p \in Positions : trace[p].ev = "enter" /\ trace[p].fid = fid]

TagOf(fid) ==
    trace[CHOOSE p \in Positions : trace[p].ev = "resolve" /\ trace[p].fid = fid].tag

ValueOf(fid, j) ==
    trace[CHOOSE p \in Positions :
            trace[p].ev = "value" /\ trace[p].fid = fid /\ trace[p].idx = j].res.val

\* the scanned children of a call: every child after the function name, minus
\* the lambda child when the function is map
FirstScanned(node, tag) ==
    (IF node.rule = "function" THEN 2 ELSE 1) + (IF tag = "Map" THEN 1 ELSE 0)

ScannedIdx(node, tag) == FirstScanned(node, tag)..Len(node.children)

HasMarker(node, tag) ==
    \E j \in ScannedIdx(node, tag) : node.children[j].rule = "at"

\* C1: a call with an `@` marker among its scanned children hands its builtin
\* exactly one argument per scanned child: no implicit context is appended,
\* wherever the markers stand and whether or not a context is present.
C1_MarkerSuppressesImplicitContext ==
    \A p \in Positions :
        trace[p].ev = "invoke" =>
            LET node == EnterOf(trace[p].fid).node
            IN  HasMarker(node, trace[p].tag) =>
                    /\ Len(trace[p].args) = Cardinality(ScannedIdx(node, trace[p].tag))
                    /\ ~\E q \in Positions :
                          trace[q].ev = "append" /\ trace[q].fid = trace[p].fid

\* a builtin invoked with two scanned children, the second one `@`, under a context
C1_Witness ==
    \E p \in Positions :
        /\ trace[p].ev = "invoke"
        /\ EnterOf(trace[p].fid).ctx.some
        /\ LET node == EnterOf(trace[p].fid).node
           IN  /\ Cardinality(ScannedIdx(node, trace[p].tag)) = 2
               /\ node.children[Len(node.children)].rule = "at"
               /\ node.children[Len(node.children) - 1].rule # "at"
        /\ Len(trace[p].args) = 2

\* C2: a call with no `@` marker among its scanned children hands its builtin the
\* evaluated children in source order, followed by the context as one extra
\* last argument when a context is present, and by nothing when none is.
C2_ImplicitContextIsLast ==
    \A p \in Positions :
        trace[p].ev = "invoke" =>
            LET fid == trace[p].fid
                node == EnterOf(fid).node
                ctx == EnterOf(fid).ctx
                first == FirstScanned(node, trace[p].tag)
                n == Cardinality(ScannedIdx(node, trace[p].tag))
                args == trace[p].args
            IN  ~HasMarker(node, trace[p].tag) =>
                    /\ Len(args) = IF ctx.some THEN n + 1 ELSE n
                    /\ \A j \in 1..n : args[j] = ValueOf(fid, first + j - 1)
                    /\ ctx.some => args[n + 1] = ctx.val

\* two explicit arguments, neither a marker, and the context as the third
C2_Witness ==
    \E p \in Positions :
        /\ trace[p].ev = "invoke"
        /\ EnterOf(trace[p].fid).ctx.some
        /\ ~HasMarker(EnterOf(trace[p].fid).node, trace[p].tag)
        /\ Len(trace[p].args) = 3
        /\ trace[p].args[3] = EnterOf(trace[p].fid).ctx.val
        /\ trace[p].args[1] # trace[p].args[3]

\* C3: evaluating a well-formed node whose function name is a documented
\* builtin ends in a Value or a query error, never in a panic.
C3_NeverPanics ==
    status # "panic"

\* C4: from_str succeeds exactly for the nine builtin names, each with its own
\* tag, and fails with "unknown function <name>" and no tag for any other text.
C4_ResolutionIsExact ==
    LET expected == [n \in BuiltinNames |->
                        CASE n = "count" -> "Count" [] n = "float" -> "Float"
                          [] n = "index" -> "Index" [] n = "keys" -> "Keys"
                          [] n = "log" -> "Log" [] n = "map" -> "Map"
                          [] n = "string" -> "String" [] n = "sum" -> "Sum"
                          [] n = "values" -> "Values"]
    IN  /\ Cardinality({expected[n] : n \in BuiltinNames}) = 9
        /\ \A p \in Positions :
              trace[p].ev = "resolve" =>
                  LET name == trace[p].node.text
                  IN  IF name \in BuiltinNames
                      THEN trace[p].res.ok /\ trace[p].tag = expected[name]
                      ELSE /\ ~trace[p].res.ok
                           /\ trace[p].tag = ""
                           /\ trace[p].res.err = "unknown function " \o name

\* one history holding a successful resolution (of the call's own name) and a
\* failed one (of a nested identifier)
C4_Witness ==
    /\ \E p \in Positions : trace[p].ev = "resolve" /\ trace[p].tag = "Values"
    /\ \E p \in Positions :
          /\ trace[p].ev = "resolve"
          /\ trace[p].node.text = "nope"
          /\ trace[p].res.err = "unknown function nope"
    /\ query.pair.text = "values"

Has(out, c) == \E p \in 1..Len(out) : out[p] = c

IsPlain(out) == ~Has(out, "e")

\* the character after the e is a sign
SignedExponent(out) ==
    \A p \in 1..Len(out) :
        out[p] = "e" => p < Len(out) /\ out[p + 1] \in {"+", "-"}

\* the f64 a shown number is formatted from
NumberShown ==
    IF shown.t = "Float" THEN shown.f ELSE IntAsF64(shown.i)

Integral(num) == Len(num.digits) <= num.exp + 1

FixturesAgree ==
    \A j \in 1..Len(FloatFixtures) :
        shown = FloatV(FloatFixtures[j][1]) => text[1] = FloatFixtures[j][2]

\* C5 as stated: plain notation exactly for exponents in [-6, 20), scientific
\* with a signed exponent otherwise, no decimal point for integral values, in
\* agreement with the fixtures of casts_float_to_string.
C5_AsStated ==
    (text # <<>> /\ shown.t \in {"Float", "Int"}) =>
        LET num == NumberShown
            out == text[1]
        IN  /\ IsPlain(out) <=> (-6 <= num.exp /\ num.exp < 20)
            /\ ~IsPlain(out) => SignedExponent(out)
            /\ Integral(num) => ~Has(out, ".")
            /\ FixturesAgree

\* C5 (amended): plain notation exactly for exponents in [-6, 20], scientific
\* with a signed exponent otherwise; an integral value written in plain notation
\* has no decimal point, and so has a one-digit mantissa in scientific notation;
\* every fixture of casts_float_to_string is reproduced.
C5_PlainWindowInclusive ==
    (text # <<>> /\ shown.t \in {"Float", "Int"}) =>
        LET num == NumberShown
            out == text[1]
        IN  /\ IsPlain(out) <=> (-6 <= num.exp /\ num.exp <= 20)
            /\ ~IsPlain(out) => SignedExponent(out)
            /\ (Integral(num) /\ (IsPlain(out) \/ Len(num.digits) = 1)) => ~Has(out, ".")
            /\ FixturesAgree

\* 3e20 has been written, in plain notation
C5_Witness ==
    /\ shown = FloatV(F64(FALSE, <<3>>, 20))
    /\ text # <<>>
    /\ IsPlain(text[1])
    /\ Len(text[1]) = 21

\* the child right after the function name
AfterName(node) == IF node.rule = "function" THEN 2 ELSE 1

\* C6: map's first child after the name is carried to the builtin as the lambda
\* without being scanned: function::eval never evaluates it, it adds no
\* argument, and it does not count as consuming the context even when it is
\* `@`; any other function reserves nothing and scans every child after the name.
C6_LambdaIsReservedUnevaluated ==
    \A p \in Positions :
      /\ (trace[p].ev = "eval" /\ TagOf(trace[p].fid) = "Map") =>
            trace[p].idx > AfterName(EnterOf(trace[p].fid).node)
      /\ trace[p].ev = "invoke" =>
            LET fid == trace[p].fid
                node == EnterOf(fid).node
                ctx == EnterOf(fid).ctx
                l == AfterName(node)
                evaluated == {trace[q].idx : q \in {r \in Positions :
                                 trace[r].ev = "eval" /\ trace[r].fid = fid}}
                rest == (l + 1)..Len(node.children)
                marked == \E j \in rest : node.children[j].rule = "at"
            IN  IF trace[p].tag = "Map"
                THEN /\ trace[p].node = node.children[l]
                     /\ evaluated = rest
                     /\ Len(trace[p].args) =
                            Cardinality(rest) + (IF ctx.some /\ ~marked THEN 1 ELSE 0)
                ELSE /\ trace[p].node = NoNode
                     /\ evaluated = l..Len(node.children)

\* map invoked with `@` as its lambda under a context: the array and the
\* implicit context are its two arguments
C6_Witness ==
    \E p \in Positions :
        /\ trace[p].ev = "invoke"
        /\ trace[p].tag = "Map"
        /\ trace[p].node = AtNode
        /\ EnterOf(trace[p].fid).ctx.some
        /\ Len(trace[p].args) = 2
        /\ trace[p].args[2] = EnterOf(trace[p].fid).ctx.val

\* C7: a failed name resolution or a failed argument ends the call at once with
\* that very error: no later child is evaluated, no context is appended, no
\* builtin is invoked, and the caller receives the error unchanged.
C7_ErrorsShortCircuit ==
    \A p \in Positions :
        (trace[p].ev \in {"resolve", "value"} /\ ~trace[p].res.ok) =>
            LET fid == trace[p].fid
                e == trace[p].res
            IN  /\ p < Len(trace)
                /\ trace[p + 1].ev = "exit"
                /\ trace[p + 1].fid = fid
                /\ trace[p + 1].res = e
                /\ \A q \in Positions : q > p + 1 => trace[q].fid # fid
                /\ trace[p].ev = "resolve" =>
                      ~\E q \in Positions : trace[q].ev = "eval" /\ trace[q].fid = fid
                /\ IF fid = 1
                   THEN status = "done" /\ ret.set /\ ret.res = e
                   ELSE p + 2 <= Len(trace) =>
                            /\ trace[p + 2].fid = EnterOf(fid).idx
                            /\ trace[p + 2].ev \in {"value", "exit"}
                            /\ trace[p + 2].res = e

\* the first of two arguments failed inside a nested call: the second was never
\* evaluated and the query ended with the nested error
C7_Witness ==
    /\ status = "done"
    /\ ~ret.res.ok
    /\ ret.res.err = "unknown function nope"
    /\ Len(query.pair.children) = 3
    /\ query.pair.children[2] = IdentNode("nope")
    /\ query.pair.children[1].text \in BuiltinNames
    /\ ~\E q \in Positions : trace[q].ev = "eval" /\ trace[q].fid = 1 /\ trace[q].idx = 3

\* the scanned child of activation fid under evaluation when entry p was
\* recorded, or 0 when there is none
During(fid, p) ==
    LET started == {q \in 1..(p - 1) : trace[q].ev = "eval" /\ trace[q].fid = fid}
    IN  IF started = {} THEN 0
        ELSE LET last == CHOOSE q \in started : \A r \in started : r <= q
             IN  IF \E r \in (last + 1)..(p - 1) :
                        /\ trace[r].ev = "value"
                        /\ trace[r].fid = fid
                        /\ trace[r].idx = trace[last].idx
                 THEN 0
                 ELSE trace[last].idx

\* C8: the scanned children of a call are evaluated one after the other in
\* source order, so the log emissions made under them come in that order; the
\* implicit context is appended after the last child has been evaluated and
\* right before the builtin is invoked.
C8_LeftToRightThenAppend ==
    \A p \in Positions :
        LET fid == trace[p].fid
        IN  /\ trace[p].ev = "eval" =>
                  \A q \in 1..(p - 1) :
                      (trace[q].ev = "eval" /\ trace[q].fid = fid) =>
                          /\ trace[q].idx < trace[p].idx
                          /\ \E r \in (q + 1)..(p - 1) :
                                /\ trace[r].ev = "value"
                                /\ trace[r].fid = fid
                                /\ trace[r].idx = trace[q].idx
            /\ trace[p].ev = "emit" =>
                  \A q \in 1..(p - 1) :
                      trace[q].ev = "emit" =>
                          \A g \in 1..nfid :
                              (During(g, q) # 0 /\ During(g, p) # 0) =>
                                  During(g, q) <= During(g, p)
            /\ trace[p].ev = "append" =>
                  /\ \A j \in ScannedIdx(EnterOf(fid).node, TagOf(fid)) :
                        \E q \in 1..(p - 1) :
                            /\ trace[q].ev = "value"
                            /\ trace[q].fid = fid
                            /\ trace[q].idx = j
                            /\ trace[q].res.ok
                  /\ ~\E q \in Positions :
                        q > p /\ trace[q].fid = fid /\ trace[q].ev \in {"eval", "value"}
                  /\ p < Len(trace) =>
                        trace[p + 1].ev = "invoke" /\ trace[p + 1].fid = fid

\* log (log @) and log @ as the two arguments of one call under a context: three
\* emissions, then the context appended, then the builtin invoked
C8_Witness ==
    /\ Cardinality({p \in Positions : trace[p].ev = "emit"}) = 3
    /\ \E p \in Positions :
          /\ trace[p].ev = "append"
          /\ trace[p].fid = 1
          /\ p < Len(trace)
          /\ trace[p + 1].ev = "invoke"
    /\ query.pair.children[2] = LogChain(2)

\* C9: function::eval supplies the context to the evaluation of a scanned child
\* exactly when that child is the `@` marker itself; any other child, a nested
\* call or an expression with an `@` inside it included, is evaluated with none.
C9_ContextOnlyToMarker ==
    \A p \in Positions :
        /\ trace[p].ev = "eval" =>
              /\ trace[p].ctx =
                    IF trace[p].node.rule = "at" THEN EnterOf(trace[p].fid).ctx ELSE None
              /\ trace[p].node = EnterOf(trace[p].fid).node.children[trace[p].idx]
        /\ (trace[p].ev = "enter" /\ p > 1 /\ trace[p - 1].ev = "eval") =>
              ~trace[p].ctx.some

\* under a context, `@[0]` is evaluated with none and a nested call is entered
\* with none
C9_Witness ==
    /\ query.context.some
    /\ \E p \in Positions :
          /\ trace[p].ev = "eval"
          /\ trace[p].fid = 1
          /\ trace[p].node = IndexedNode
          /\ ~trace[p].ctx.some
    /\ \E p \in Positions :
          /\ trace[p].ev = "enter"
          /\ trace[p].idx = 1
          /\ trace[p].node = LogChain(1)
          /\ ~trace[p].ctx.some

\* C10: the flag of an activation is unset exactly when one of its own direct
\* children scanned so far is the `@` marker, whatever the activations nested
\* in it or around it have done; and it appends its context exactly when a
\* context is present and none of its own scanned children is the marker.
C10_FlagIsLocal ==
    /\ \A k \in 1..Len(stack) :
          LET f == stack[k]
          IN  f.pc \notin {"resolve", "fn_arg"} =>
                  (f.use_implicit_context <=>
                      ~\E j \in FirstScanned(f.pair, f.function)..f.iter :
                            f.pair.children[j].rule = "at")
    /\ \A p \in Positions :
          trace[p].ev = "invoke" =>
              LET fid == trace[p].fid
              IN  (\E q \in 1..(p - 1) : trace[q].ev = "append" /\ trace[q].fid = fid)
                  <=> (EnterOf(fid).ctx.some /\ ~HasMarker(EnterOf(fid).node, trace[p].tag))

\* an outer call that consumed `@` waits on a nested call whose own flag is set
C10_Witness ==
    /\ Len(stack) = 2
    /\ stack[1].pc = "scan_wait"
    /\ ~stack[1].use_implicit_context
    /\ stack[2].pc = "dispatch"
    /\ stack[2].use_implicit_context
    /\ stack[1].context.some

====
